---- MODULE Spec2Model ----
(***************************************************************************)
(* A model of zpool-create.py: the orchestrator main(), the command runner *)
(* execute()/execute_cmd()/execute_nmc(), the inventory parsers            *)
(* get_slotmap()/get_hddisco(), the classifier is_log()/is_cache(), the    *)
(* resolvers build_log()/build_cache()/build_vdev(), the command builder   *)
(* zpool_create() and the prompts prompt()/prompt_yn().                    *)
(*                                                                         *)
(* A Python string that the program assembles with " ".join is modelled    *)
(* as the sequence of its space-separated tokens; the empty string is the  *)
(* one-token sequence <<"">>.  A Python dict is a TLA+ function whose      *)
(* DOMAIN is the set of its keys.  None is the record NoneVal, any other   *)
(* optional value v is Some(v).                                            *)
(***************************************************************************)
EXTENDS Integers, Sequences, FiniteSets, TLC

VARIABLES
    pc,          \* position of main()
    exitStatus,  \* the process exit status, meaningful when pc = "Exited"
    layouts,     \* main: the parsed configuration file
    layout,      \* main: the selected layout name
    choice,      \* prompt: the line read last
    slotmap,     \* main: the parsed slot map
    hddisco,     \* main: the parsed discovery output
    poolIdx,     \* main: index of the pool the for loop is at
    name,        \* main: local variable name
    redundancy,  \* main: local variable redundancy
    log,         \* main: local variable log
    cache,       \* main: local variable cache
    vdev,        \* main: local variable vdev
    trace,       \* history: what the run has done, in order
    errors,      \* history: the kinds of error the run has met
    epc,         \* execute: position
    etimeout,    \* execute: the timeout argument (0 is None)
    alarm,       \* execute: state of the SIGALRM timer
    child,       \* execute: state of the child process
    phandle,     \* execute: whether the local phandle is bound
    eresult,     \* execute: how the call ended
    childAtFire  \* history: state of the child when the alarm fired

mainVars == <<pc, exitStatus, layouts, layout, choice, slotmap, hddisco,
              poolIdx, name, redundancy, log, cache, vdev, trace, errors>>
execVars == <<epc, etimeout, alarm, child, phandle, eresult, childAtFire>>
vars == <<pc, exitStatus, layouts, layout, choice, slotmap, hddisco,
          poolIdx, name, redundancy, log, cache, vdev, trace, errors,
          epc, etimeout, alarm, child, phandle, eresult, childAtFire>>

(***************************************************************************)
(* Bounds of the model.                                                    *)
(***************************************************************************)
MaxPools == 2      \* pools per layout
MaxChoice == 3     \* the operator types integers in -MaxChoice..MaxChoice

NoneVal == [some |-> FALSE, v |-> <<>>]
Some(x) == [some |-> TRUE, v |-> x]
Unbound == "<unbound>"
EmptyDict == <<>>

(***************************************************************************)
(* Python helpers.                                                         *)
(***************************************************************************)
\* " ".join(strs) on token sequences
RECURSIVE Join(_)
Join(strs) ==
    IF Len(strs) = 0 THEN <<"">>
    ELSE IF Len(strs) = 1 THEN strs[1]
    ELSE strs[1] \o Join(Tail(strs))

\* seq[idx] with Python's indexing: a negative idx counts from the end
PyIndexOk(seq, idx) == /\ idx >= 0 - Len(seq)
                       /\ idx < Len(seq)
PyIndex(seq, idx) == IF idx < 0 THEN seq[idx + Len(seq) + 1] ELSE seq[idx + 1]

\* int(tok) of the tokens the slot map uses
IsIntTok(tok) == tok \in {"1", "2", "3", "4"}
IntOf(tok) == CASE tok = "1" -> 1 [] tok = "2" -> 2 [] tok = "3" -> 3
                [] tok = "4" -> 4 [] OTHER -> 0

(***************************************************************************)
(* Inventory parsers.  A line of the slot map is a record: unmapped says   *)
(* that it contains "Unmapped disks", match that the regular expression    *)
(* of get_slotmap finds a device token in it, toks is line.split().  A     *)
(* line of the discovery output has t = "eq" (it starts with "="; id is    *)
(* the rest, stripped), t = "P" (it starts with "P"), t = "kv" (it splits  *)
(* into the two fields k and v) or t = "short" (it splits into fewer than  *)
(* two fields).                                                            *)
(***************************************************************************)
SlotmapPut(sm, jbod, slot, lun) ==
    IF jbod \in DOMAIN sm
    THEN [sm EXCEPT ![jbod] = (slot :> lun) @@ @]
    ELSE (jbod :> (slot :> lun)) @@ sm

RECURSIVE SlotmapLines(_, _)
SlotmapLines(lines, sm) ==
    IF lines = <<>> THEN [err |-> "", map |-> sm]
    ELSE LET line == Head(lines) IN
         IF line.unmapped THEN [err |-> "", map |-> sm]
         ELSE IF line.match
         THEN LET f == SubSeq(line.toks, 1, Len(line.toks) - 1) IN
              IF Len(f) # 3 \/ ~IsIntTok(f[3])
              THEN [err |-> "ValueError", map |-> sm]
              ELSE SlotmapLines(Tail(lines),
                                SlotmapPut(sm, f[2], IntOf(f[3]), f[1]))
         ELSE SlotmapLines(Tail(lines), sm)

\* get_slotmap after execute_nmc has returned output
get_slotmap(output) ==
    IF ~output.some THEN [err |-> "AttributeError", map |-> EmptyDict]
    ELSE SlotmapLines(output.v, EmptyDict)

RECURSIVE HddiscoLines(_, _, _)
HddiscoLines(lines, current, hd) ==
    IF lines = <<>> THEN [err |-> "", map |-> hd]
    ELSE LET line == Head(lines) IN
         IF line.t = "eq"
         THEN HddiscoLines(Tail(lines), line.id,
                           (line.id :> EmptyDict) @@ hd)
         ELSE IF line.t = "P"
         THEN HddiscoLines(Tail(lines), current, hd)
         ELSE IF line.t = "short"
         THEN [err |-> "ValueError", map |-> hd]
         ELSE IF current = Unbound
         THEN [err |-> "UnboundLocalError", map |-> hd]
         ELSE HddiscoLines(Tail(lines), current,
                           [hd EXCEPT ![current] = (line.k :> line.v) @@ @])

\* get_hddisco after execute_cmd has returned output
get_hddisco(output) ==
    IF ~output.some THEN [err |-> "AttributeError", map |-> EmptyDict]
    ELSE HddiscoLines(output.v, Unbound, EmptyDict)

(***************************************************************************)
(* Device classifier.  The result is "True", "False" or "KeyError".        *)
(***************************************************************************)
is_log(d, hd) ==
    IF d \notin DOMAIN hd THEN "KeyError"
    ELSE IF "product" \notin DOMAIN hd[d] THEN "KeyError"
    ELSE IF hd[d]["product"] = "ZeusRAM" THEN "True" ELSE "False"

\* a variant of is_cache that takes every SSD, a log device too
is_cache_any_ssd(d, hd) ==
    IF d \notin DOMAIN hd THEN "KeyError"
    ELSE IF "is_ssd" \notin DOMAIN hd[d] THEN "KeyError"
    ELSE IF hd[d]["is_ssd"] = "yes" THEN "True" ELSE "False"

is_cache(d, hd) ==
    IF d \notin DOMAIN hd THEN "KeyError"
    ELSE IF "is_ssd" \notin DOMAIN hd[d] THEN "KeyError"
    ELSE IF hd[d]["is_ssd"] = "yes"
         THEN CASE is_log(d, hd) = "KeyError" -> "KeyError"
                [] is_log(d, hd) = "True" -> "False"
                [] OTHER -> "True"
         ELSE "False"

(***************************************************************************)
(* Layout resolver.  A build_* operator gives [st, val]: st = "ok" and the *)
(* list built, st = "exit" when it calls sys.exit(1), st = "raise" when an *)
(* exception leaves it.                                                    *)
(***************************************************************************)
\* [slotmap[j][s] for j, s in refs]
CanResolve(refs, sm) ==
    \A i \in 1..Len(refs) : /\ refs[i][1] \in DOMAIN sm
                            /\ refs[i][2] \in DOMAIN sm[refs[i][1]]
Resolve(refs, sm) == [i \in 1..Len(refs) |-> sm[refs[i][1]][refs[i][2]]]

\* the logger call of an invalid device reads its vendor and product
InvalidDevice(d, hd) ==
    IF "vendor" \in DOMAIN hd[d] /\ "product" \in DOMAIN hd[d]
    THEN "exit" ELSE "raise"

\* a variant of LogDiskCheck that takes every SSD as a log device
LogDiskCheckAnySsd(d, hd) ==
    CASE is_log(d, hd) = "KeyError" -> "raise"
      [] is_log(d, hd) = "True" -> "ok"
      [] is_cache(d, hd) = "True" -> "ok"
      [] OTHER -> InvalidDevice(d, hd)

LogDiskCheck(d, hd) ==
    CASE is_log(d, hd) = "KeyError" -> "raise"
      [] is_log(d, hd) = "False" -> InvalidDevice(d, hd)
      [] OTHER -> "ok"

CacheDiskCheck(d, hd) ==
    CASE is_cache(d, hd) = "KeyError" -> "raise"
      [] is_cache(d, hd) = "False" -> InvalidDevice(d, hd)
      [] OTHER -> "ok"

\* a variant of VdevDiskCheck that forgets the cache test
VdevDiskCheckLogOnly(d, hd) ==
    CASE is_log(d, hd) = "KeyError" -> "raise"
      [] is_log(d, hd) = "True" -> InvalidDevice(d, hd)
      [] OTHER -> "ok"

VdevDiskCheck(d, hd) ==
    CASE is_log(d, hd) = "KeyError" -> "raise"
      [] is_log(d, hd) = "True" -> InvalidDevice(d, hd)
      [] is_cache(d, hd) = "KeyError" -> "raise"
      [] is_cache(d, hd) = "True" -> InvalidDevice(d, hd)
      [] OTHER -> "ok"

DiskCheck(role, d, hd) ==
    CASE role = "log" -> LogDiskCheck(d, hd)
      [] role = "cache" -> CacheDiskCheck(d, hd)
      [] OTHER -> VdevDiskCheck(d, hd)

\* the for loop over the disks of one group
RECURSIVE CheckDisks(_, _, _)
CheckDisks(role, disks, hd) ==
    IF disks = <<>> THEN "ok"
    ELSE LET r == DiskCheck(role, Head(disks), hd) IN
         IF r # "ok" THEN r ELSE CheckDisks(role, Tail(disks), hd)

\* the for loop over the groups
RECURSIVE BuildGroups(_, _, _, _)
BuildGroups(role, config, sm, hd) ==
    IF config = <<>> THEN [st |-> "ok", val |-> <<>>]
    ELSE IF ~CanResolve(Head(config), sm) THEN [st |-> "raise", val |-> <<>>]
    ELSE LET disks == Resolve(Head(config), sm)
             c == CheckDisks(role, disks, hd)
         IN IF c # "ok" THEN [st |-> c, val |-> <<>>]
            ELSE LET rest == BuildGroups(role, Tail(config), sm, hd) IN
                 IF rest.st # "ok" THEN rest
                 ELSE [st |-> "ok", val |-> <<disks>> \o rest.val]

build_log(log_config, sm, hd) == BuildGroups("log", log_config, sm, hd)

build_cache(cache_config, sm, hd) ==
    IF ~CanResolve(cache_config, sm) THEN [st |-> "raise", val |-> <<>>]
    ELSE LET c == CheckDisks("cache", Resolve(cache_config, sm), hd) IN
         IF c # "ok" THEN [st |-> c, val |-> <<>>]
         ELSE [st |-> "ok", val |-> Resolve(cache_config, sm)]

build_vdev(vdev_config, sm, hd) == BuildGroups("vdev", vdev_config, sm, hd)

(***************************************************************************)
(* Pool command builder: the command string zpool_create hands to          *)
(* execute_cmd, as a token sequence.                                       *)
(***************************************************************************)
\* "/volumes/%s" % name
Mnt(n) == CASE n = "p1" -> "/volumes/p1" [] n = "p2" -> "/volumes/p2"
            [] n = "p3" -> "/volumes/p3" [] n = "p4" -> "/volumes/p4"
            [] n = "p5" -> "/volumes/p5" [] n = "p6" -> "/volumes/p6"
            [] n = "p7" -> "/volumes/p7" [] n = "p8" -> "/volumes/p8"
            [] OTHER -> "/volumes/"

BaseCmd(n) == <<"zpool", "create", "-f", "-m", Mnt(n), "-o",
                "failmode=continue", "-o", "autoreplace=on", "-O",
                "compression=lz4", n>>

\* " ".join(devs) of a list of device identifiers
DevStr(devs) == Join([i \in 1..Len(devs) |-> <<devs[i]>>])

\* " ".join([" ".join([token, " ".join(g)]) for g in groups])
GroupsStr(token, groups) ==
    Join([i \in 1..Len(groups) |-> Join(<<<<token>>, DevStr(groups[i])>>)])

\* a variant of zpool_create that gives the log groups the pool's redundancy
zpool_create_log_redundancy(n, red, vd, ca, lg) ==
    LET cmd1 == Join(<<BaseCmd(n), GroupsStr(red, vd)>>)
        cmd2 == IF lg.some
                THEN Join(<<cmd1, <<"log">>, GroupsStr(red, lg.v)>>)
                ELSE cmd1
    IN  IF ca.some THEN Join(<<cmd2, <<"cache">>, DevStr(ca.v)>>) ELSE cmd2

zpool_create(n, red, vd, ca, lg) ==
    LET cmd1 == Join(<<BaseCmd(n), GroupsStr(red, vd)>>)
        cmd2 == IF lg.some
                THEN Join(<<cmd1, <<"log">>, GroupsStr("mirror", lg.v)>>)
                ELSE cmd1
    IN  IF ca.some THEN Join(<<cmd2, <<"cache">>, DevStr(ca.v)>>) ELSE cmd2

(***************************************************************************)
(* The environment: what the configuration file and the two inventory      *)
(* commands can hold.                                                      *)
(***************************************************************************)
R1 == <<"J1", 1>>
R2 == <<"J1", 2>>
R3 == <<"J1", 3>>
R4 == <<"J1", 4>>

\* a pool specification is a dict: a key it lacks is not in its DOMAIN
PoolP1 == [name |-> "p1", redundancy |-> "mirror", vdev |-> <<<<R1, R2>>>>]

PoolSpecs == {
    PoolP1,
    [name |-> "p2", redundancy |-> "raidz2", vdev |-> <<<<R1>>, <<R2>>>>,
     log |-> <<<<R3>>>>, cache |-> <<R4>>],
    [redundancy |-> "mirror", vdev |-> <<<<R1>>>>],
    [name |-> "p4", vdev |-> <<<<R2>>>>, log |-> <<<<R3>>>>],
    [name |-> "p5", redundancy |-> "mirror", vdev |-> <<<<R1, R3>>>>],
    [name |-> "p6", redundancy |-> "raidz2", vdev |-> <<<<R2>>>>,
     log |-> <<<<R3>>>>, cache |-> <<R3>>],
    [name |-> "p7", redundancy |-> "mirror", vdev |-> <<<<R1>>>>,
     log |-> <<>>, cache |-> <<>>],
    [name |-> "p8", redundancy |-> "mirror", cache |-> <<<<"J2", 1>>>>] }

PoolSeqs == UNION {[1..n -> PoolSpecs] : n \in 0..MaxPools}

\* the configuration file: layout "A" alone, or with a second layout "B"
Configs == {("A" :> s) : s \in PoolSeqs}
           \cup {("A" :> s) @@ ("B" :> <<PoolP1>>) : s \in PoolSeqs}

\* layouts.keys(): the order in which the dict lists its keys
Keys(ls) == IF "B" \in DOMAIN ls THEN <<"A", "B">> ELSE <<"A">>

SlotLine(lun, jbod, slot) ==
    [unmapped |-> FALSE, match |-> TRUE, toks |-> <<lun, jbod, slot, "ok">>]
OtherLine == [unmapped |-> FALSE, match |-> FALSE, toks |-> <<"LUN", "JBOD">>]
UnmappedLine == [unmapped |-> TRUE, match |-> FALSE,
                 toks |-> <<"Unmapped", "disks">>]

SlotmapOutputs == {
    NoneVal,
    Some(<<OtherLine, SlotLine("c0t0d0", "J1", "1"),
           SlotLine("c0t1d0", "J1", "2"), SlotLine("c0t2d0", "J1", "3"),
           SlotLine("c0t3d0", "J1", "4")>>),
    Some(<<SlotLine("c0t0d0", "J1", "1"), SlotLine("c0t1d0", "J1", "2"),
           SlotLine("c0t2d0", "J1", "3"), UnmappedLine,
           SlotLine("c0t3d0", "J1", "4")>>),
    Some(<<SlotLine("c0t0d0", "J1", "1"),
           [unmapped |-> FALSE, match |-> TRUE,
            toks |-> <<"c0t1d0", "J1", "2">>]>>) }

Eq(id) == [t |-> "eq", id |-> id, k |-> "", v |-> ""]
Kv(k, v) == [t |-> "kv", id |-> "", k |-> k, v |-> v]
PLine == [t |-> "P", id |-> "", k |-> "", v |-> ""]
ShortLine == [t |-> "short", id |-> "", k |-> "", v |-> ""]

\* the section of one device
Section(id, vendor, product, ssd) ==
    <<Eq(id), PLine, Kv("vendor", vendor), Kv("product", product),
      Kv("is_ssd", ssd)>>

HddiscoOutputs == {
    NoneVal,
    Some(<<Kv("vendor", "ATA")>>),
    Some(Section("c0t0d0", "ATA", "HDD", "no") \o <<ShortLine>>),
    Some(Section("c0t0d0", "ATA", "HDD", "no")
         \o Section("c0t1d0", "ATA", "HDD", "no")
         \o Section("c0t2d0", "STEC", "ZeusRAM", "yes")
         \o Section("c0t3d0", "STEC", "SSD", "yes")),
    Some(Section("c0t0d0", "ATA", "HDD", "no")
         \o Section("c0t1d0", "STEC", "ZeusRAM", "no")
         \o Section("c0t2d0", "STEC", "ZeusRAM", "yes")
         \o Section("c0t3d0", "STEC", "SSD", "yes")),
    Some(Section("c0t0d0", "ATA", "HDD", "unknown")
         \o Section("c0t1d0", "ATA", "HDD", "no")
         \o Section("c0t2d0", "STEC", "SSD", "yes")
         \o Section("c0t3d0", "ATA", "HDD", "no")),
    Some(Section("c0t0d0", "ATA", "HDD", "no")
         \o <<Eq("c0t1d0"), Kv("is_ssd", "no")>>
         \o <<Eq("c0t2d0"), Kv("vendor", "STEC"), Kv("product", "ZeusRAM")>>
         \o <<Eq("c0t3d0"), Kv("product", "SSD"), Kv("is_ssd", "yes")>>) }

\* what the operator types at prompt(): an integer, other text, or end of file
Choices == [kind : {"int"}, val : (0 - MaxChoice)..MaxChoice]
           \cup {[kind |-> "text", val |-> 0], [kind |-> "eof", val |-> 0]}
NoChoice == [kind |-> "none", val |-> 0]

\* the timeouts main passes to execute
SlotmapTimeout == 600
HddiscoTimeout == 300

(***************************************************************************)
(* Command runner as main sees it.  An outcome of execute(cmd, timeout) is *)
(* a return of (retcode, output) or an exception; the step-by-step model   *)
(* of execute follows further down.  With a timeout set the alarm handler  *)
(* can end the call with Timeout, and with the exception that              *)
(* phandle.kill() raises when the alarm fires outside communicate().       *)
(***************************************************************************)
ExecOutcomes(timeout, outputs) ==
    {[kind |-> "return", retcode |-> 0, output |-> o] : o \in outputs}
    \cup {[kind |-> "return", retcode |-> 1, output |-> NoneVal],
          [kind |-> "Execute", retcode |-> 0, output |-> NoneVal]}
    \cup (IF timeout # 0
          THEN {[kind |-> k, retcode |-> 0, output |-> NoneVal] :
                    k \in {"Timeout", "UnboundLocalError", "OSError"}}
          ELSE {})

\* a variant of execute_cmd that does not look at the return code
execute_cmd_no_retcode(o) == o.kind # "return"

\* execute_cmd on an outcome of execute: whether it calls sys.exit(1)
execute_cmd(o) == IF o.kind # "return" THEN TRUE ELSE o.retcode # 0

\* execute_nmc on an outcome of execute: whether it calls sys.exit(1)
execute_nmc(o) == IF o.kind # "return" THEN TRUE ELSE o.retcode # 0

\* whether the command ran and returned 0
CmdOk(o) == o.kind = "return" /\ o.retcode = 0

\* the kind of error a failed command is
ErrorKind(o) == CASE o.kind = "return" -> "NonZeroExit"
                  [] o.kind = "Timeout" -> "Timeout"
                  [] OTHER -> "Execution"

(***************************************************************************)
(* prompt(): one pass of its while loop on the line read.                  *)
(***************************************************************************)
prompt(c, answers) ==
    IF c.kind # "int" THEN [ok |-> FALSE, answer |-> Unbound]
    ELSE IF ~PyIndexOk(answers, c.val - 1) THEN [ok |-> FALSE, answer |-> Unbound]
    ELSE [ok |-> TRUE, answer |-> PyIndex(answers, c.val - 1)]

(***************************************************************************)
(* The device lists of one pool, lines 484-498 of main: st = "ok" with the *)
(* three lists, st = "exit" or st = "raise" as the build_* operator that   *)
(* stopped it.                                                             *)
(***************************************************************************)
BuildLists(pool, sm, hd) ==
    LET lg == IF "log" \in DOMAIN pool THEN build_log(pool["log"], sm, hd)
              ELSE [st |-> "ok", val |-> <<>>]
        ca == IF "cache" \in DOMAIN pool
              THEN build_cache(pool["cache"], sm, hd)
              ELSE [st |-> "ok", val |-> <<>>]
        vd == IF "vdev" \in DOMAIN pool THEN build_vdev(pool["vdev"], sm, hd)
              ELSE [st |-> "raise", val |-> <<>>]
        bad(st) == [st |-> st, log |-> NoneVal, cache |-> NoneVal, vdev |-> <<>>]
    IN  IF lg.st # "ok" THEN bad(lg.st)
        ELSE IF ca.st # "ok" THEN bad(ca.st)
        ELSE IF vd.st # "ok" THEN bad(vd.st)
        ELSE [st |-> "ok",
              log |-> IF "log" \in DOMAIN pool THEN Some(lg.val) ELSE NoneVal,
              cache |-> IF "cache" \in DOMAIN pool THEN Some(ca.val) ELSE NoneVal,
              vdev |-> vd.val]

(***************************************************************************)
(* main().                                                                 *)
(***************************************************************************)
\* a variant of StateAfter that reads the slot map before the rescan
StateAfterSlotmapFirst(p) ==
    CASE p = "ParseArgs" -> "LoadConfig"
      [] p = "LoadConfig" -> "SelectLayout"
      [] p = "SelectLayout" -> "ConfirmLayout"
      [] p = "ConfirmLayout" -> "GetSlotmap"
      [] p = "GetSlotmap" -> "RescanHardware"
      [] p = "RescanHardware" -> "GetHddisco"
      [] p = "GetHddisco" -> "ForEachPool"
      [] p = "ForEachPool" -> "BuildDeviceLists"
      [] p = "BuildDeviceLists" -> "CreatePool"
      [] OTHER -> "ForEachPool"

\* the statement main goes on with when the one at p is done
StateAfter(p) ==
    CASE p = "ParseArgs" -> "LoadConfig"
      [] p = "LoadConfig" -> "SelectLayout"
      [] p = "SelectLayout" -> "ConfirmLayout"
      [] p = "ConfirmLayout" -> "RescanHardware"
      [] p = "RescanHardware" -> "GetSlotmap"
      [] p = "GetSlotmap" -> "GetHddisco"
      [] p = "GetHddisco" -> "ForEachPool"
      [] p = "ForEachPool" -> "BuildDeviceLists"
      [] p = "BuildDeviceLists" -> "CreatePool"
      [] OTHER -> "ForEachPool"

Event(e, k, ok) == [e |-> e, k |-> k, ok |-> ok]
CurrentPool == layouts[layout][poolIdx]

\* the process ends with this status, having met this kind of error
Exit(status, err) ==
    /\ pc' = "Exited"
    /\ exitStatus' = status
    /\ errors' = errors \cup err

Init ==
    /\ pc = "ParseArgs"
    /\ exitStatus = 0
    /\ layouts = EmptyDict
    /\ layout = Unbound
    /\ choice = NoChoice
    /\ slotmap = EmptyDict
    /\ hddisco = EmptyDict
    /\ poolIdx = 0
    /\ name = Unbound
    /\ redundancy = Unbound
    /\ log = NoneVal
    /\ cache = NoneVal
    /\ vdev = <<>>
    /\ trace = <<>>
    /\ errors = {}
    /\ epc = "idle"
    /\ etimeout = 0
    /\ alarm = "off"
    /\ child = [st |-> "none", rc |-> 0, out |-> ""]
    /\ phandle = FALSE
    /\ eresult = [kind |-> "none", retcode |-> 0, output |-> NoneVal]
    /\ childAtFire = "none"

\* lines 418-434: getopt and the options loop
ParseArgs ==
    /\ pc = "ParseArgs"
    /\ \E a \in {"none", "config", "help", "bad"} :
          CASE a = "bad" -> /\ Exit(1, {"UsageError"})
                            /\ trace' = trace
            [] a = "help" -> /\ Exit(0, {})
                             /\ trace' = Append(trace, Event("help", 0, TRUE))
            [] OTHER -> /\ pc' = StateAfter(pc)
                        /\ UNCHANGED <<exitStatus, errors, trace>>
    /\ UNCHANGED <<layouts, layout, choice, slotmap, hddisco, poolIdx, name,
                   redundancy, log, cache, vdev>>
    /\ UNCHANGED execVars

\* lines 436-455: open and parse the configuration file
LoadConfig ==
    /\ pc = "LoadConfig"
    /\ \/ /\ Exit(1, {"ConfigError"})
          /\ layouts' = layouts
       \/ /\ layouts' \in Configs
          /\ pc' = StateAfter(pc)
          /\ UNCHANGED <<exitStatus, errors>>
    /\ UNCHANGED <<layout, choice, slotmap, hddisco, poolIdx, name,
                   redundancy, log, cache, vdev, trace>>
    /\ UNCHANGED execVars

\* line 458: one line read by prompt()
SelectLayout ==
    /\ pc = "SelectLayout"
    /\ \E c \in Choices :
          /\ choice' = c
          /\ IF c.kind = "eof"
             THEN /\ Exit(1, {"EOFError"})
                  /\ UNCHANGED <<layout, trace>>
             ELSE IF prompt(c, Keys(layouts)).ok
             THEN /\ layout' = prompt(c, Keys(layouts)).answer
                  /\ pc' = StateAfter(pc)
                  /\ trace' = Append(trace, Event("select", 0, TRUE))
                  /\ UNCHANGED <<exitStatus, errors>>
             ELSE UNCHANGED <<pc, exitStatus, errors, layout, trace>>
    /\ UNCHANGED <<layouts, slotmap, hddisco, poolIdx, name, redundancy, log,
                   cache, vdev>>
    /\ UNCHANGED execVars

\* lines 459-461: one line read by prompt_yn()
ConfirmLayout ==
    /\ pc = "ConfirmLayout"
    /\ \E c \in {"y", "n", "other", "eof"} :
          CASE c = "y" -> /\ pc' = StateAfter(pc)
                          /\ trace' = Append(trace, Event("confirm", 0, TRUE))
                          /\ UNCHANGED <<exitStatus, errors>>
            [] c = "n" -> /\ Exit(0, {})
                          /\ trace' = Append(trace, Event("declined", 0, TRUE))
            [] c = "eof" -> /\ Exit(1, {"EOFError"})
                            /\ trace' = trace
            [] OTHER -> UNCHANGED <<pc, exitStatus, errors, trace>>
    /\ choice' = IF pc' = pc THEN choice ELSE NoChoice
    /\ UNCHANGED <<layouts, layout, slotmap, hddisco, poolIdx, name,
                   redundancy, log, cache, vdev>>
    /\ UNCHANGED execVars

\* line 464: execute_nmc("setup jbod rescan")
RescanHardware ==
    /\ pc = "RescanHardware"
    /\ \E o \in ExecOutcomes(0, {NoneVal}) :
          /\ trace' = Append(trace, Event("cmd_rescan", 0, CmdOk(o)))
          /\ IF execute_nmc(o)
             THEN Exit(1, {ErrorKind(o)})
             ELSE /\ pc' = StateAfter(pc)
                  /\ UNCHANGED <<exitStatus, errors>>
    /\ UNCHANGED <<layouts, layout, choice, slotmap, hddisco, poolIdx, name,
                   redundancy, log, cache, vdev>>
    /\ UNCHANGED execVars

\* line 467: slotmap = get_slotmap()
GetSlotmap ==
    /\ pc = "GetSlotmap"
    /\ \E o \in ExecOutcomes(SlotmapTimeout, SlotmapOutputs) :
          IF execute_nmc(o)
          THEN /\ trace' = Append(trace, Event("cmd_slotmap", 0, CmdOk(o)))
               /\ Exit(1, {ErrorKind(o)})
               /\ slotmap' = slotmap
          ELSE IF get_slotmap(o.output).err # ""
          THEN /\ trace' = Append(trace, Event("cmd_slotmap", 0, TRUE))
               /\ Exit(1, {"ParseError"})
               /\ slotmap' = slotmap
          ELSE /\ trace' = trace \o <<Event("cmd_slotmap", 0, TRUE),
                                      Event("inv_slotmap", 0, TRUE)>>
               /\ slotmap' = get_slotmap(o.output).map
               /\ pc' = StateAfter(pc)
               /\ UNCHANGED <<exitStatus, errors>>
    /\ UNCHANGED <<layouts, layout, choice, hddisco, poolIdx, name,
                   redundancy, log, cache, vdev>>
    /\ UNCHANGED execVars

\* line 470: hddisco = get_hddisco(), then the for loop starts
GetHddisco ==
    /\ pc = "GetHddisco"
    /\ \E o \in ExecOutcomes(HddiscoTimeout, HddiscoOutputs) :
          IF execute_cmd(o)
          THEN /\ trace' = Append(trace, Event("cmd_hddisco", 0, CmdOk(o)))
               /\ Exit(1, {ErrorKind(o)})
               /\ UNCHANGED <<hddisco, poolIdx>>
          ELSE IF get_hddisco(o.output).err # ""
          THEN /\ trace' = Append(trace, Event("cmd_hddisco", 0, TRUE))
               /\ Exit(1, {"ParseError"})
               /\ UNCHANGED <<hddisco, poolIdx>>
          ELSE /\ trace' = trace \o <<Event("cmd_hddisco", 0, TRUE),
                                      Event("inv_hddisco", 0, TRUE)>>
               /\ hddisco' = get_hddisco(o.output).map
               /\ poolIdx' = 1
               /\ pc' = StateAfter(pc)
               /\ UNCHANGED <<exitStatus, errors>>
    /\ UNCHANGED <<layouts, layout, choice, slotmap, name, redundancy, log,
                   cache, vdev>>
    /\ UNCHANGED execVars

\* lines 473-481: the for loop takes the next pool, or main ends
ForEachPool ==
    /\ pc = "ForEachPool"
    /\ IF poolIdx > Len(layouts[layout])
       THEN /\ Exit(0, {})
            /\ trace' = Append(trace, Event("complete", 0, TRUE))
            /\ UNCHANGED <<name, redundancy>>
       ELSE /\ name' = IF "name" \in DOMAIN CurrentPool
                       THEN CurrentPool["name"] ELSE name
            /\ redundancy' = IF {"name", "redundancy"} \subseteq DOMAIN CurrentPool
                             THEN CurrentPool["redundancy"] ELSE redundancy
            /\ trace' = trace
            /\ LET missing == IF {"name", "redundancy"} \subseteq DOMAIN CurrentPool
                              THEN {} ELSE {"InvalidConfig"}
               IN  IF name' = Unbound
                   THEN Exit(1, missing \cup {"UnboundLocalError"})
                   ELSE /\ pc' = StateAfter(pc)
                        /\ errors' = errors \cup missing
                        /\ exitStatus' = exitStatus
    /\ UNCHANGED <<layouts, layout, choice, slotmap, hddisco, poolIdx, log,
                   cache, vdev>>
    /\ UNCHANGED execVars

\* lines 483-498: build the device lists of the pool
BuildDeviceLists ==
    /\ pc = "BuildDeviceLists"
    /\ LET b == BuildLists(CurrentPool, slotmap, hddisco) IN
          CASE b.st = "exit" -> /\ Exit(1, {"ValidationError"})
                                /\ UNCHANGED <<log, cache, vdev, trace>>
            [] b.st = "raise" -> /\ Exit(1, {"LookupError"})
                                 /\ UNCHANGED <<log, cache, vdev, trace>>
            [] OTHER -> /\ log' = b.log
                        /\ cache' = b.cache
                        /\ vdev' = b.vdev
                        /\ trace' = Append(trace, Event("built", poolIdx, TRUE))
                        /\ pc' = StateAfter(pc)
                        /\ UNCHANGED <<exitStatus, errors>>
    /\ UNCHANGED <<layouts, layout, choice, slotmap, hddisco, poolIdx, name,
                   redundancy>>
    /\ UNCHANGED execVars

\* line 500: zpool_create(name, redundancy, vdev, cache, log)
CreatePool ==
    /\ pc = "CreatePool"
    /\ IF redundancy = Unbound
       THEN /\ Exit(1, {"UnboundLocalError"})
            /\ UNCHANGED <<trace, poolIdx>>
       ELSE \E o \in ExecOutcomes(0, {NoneVal}) :
               /\ trace' = Append(trace,
                      [e |-> "cmd_create", k |-> poolIdx, ok |-> CmdOk(o),
                       name |-> name, redundancy |-> redundancy, vdev |-> vdev,
                       cache |-> cache, log |-> log,
                       cmd |-> zpool_create(name, redundancy, vdev, cache, log)])
               /\ IF execute_cmd(o)
                  THEN /\ Exit(1, {ErrorKind(o)})
                       /\ poolIdx' = poolIdx
                  ELSE /\ poolIdx' = poolIdx + 1
                       /\ pc' = StateAfter(pc)
                       /\ UNCHANGED <<exitStatus, errors>>
    /\ UNCHANGED <<layouts, layout, choice, slotmap, hddisco, name,
                   redundancy, log, cache, vdev>>
    /\ UNCHANGED execVars

\* lines 505-509: KeyboardInterrupt reaches the top level and is logged
Interrupt ==
    /\ pc # "Exited"
    /\ Exit(0, {"KeyboardInterrupt"})
    /\ UNCHANGED <<layouts, layout, choice, slotmap, hddisco, poolIdx, name,
                   redundancy, log, cache, vdev, trace>>
    /\ UNCHANGED execVars

Next ==
    \/ ParseArgs
    \/ LoadConfig
    \/ SelectLayout
    \/ ConfirmLayout
    \/ RescanHardware
    \/ GetSlotmap
    \/ GetHddisco
    \/ ForEachPool
    \/ BuildDeviceLists
    \/ CreatePool
    \/ Interrupt

Spec == Init /\ [][Next]_vars

(***************************************************************************)
(* execute(cmd, timeout), step by step.  The positions of the call:        *)
(*   "start"        line 80, before the alarm is set                       *)
(*   "armed"        lines 80-82 done, the try block not yet entered        *)
(*   "try"          inside the try block, Popen not yet forked             *)
(*   "popen"        inside Popen: the child is forked, phandle not bound   *)
(*   "communicate"  phandle bound, communicate() waits for the child       *)
(*   "collected"    communicate() has returned, still in the try block     *)
(*   "else"         the else clause, before signal.alarm(0)                *)
(*   "strip"        lines 103-109                                          *)
(*   "returned", "raised"   the call has ended                             *)
(* The child is "none", "running", "exited" (ended, not yet waited for),   *)
(* "reaped" (waited for by communicate) or "killed" (by phandle.kill()).   *)
(* The alarm fires at whatever position the call is at.                    *)
(***************************************************************************)
Child(st, rc, out) == [st |-> st, rc |-> rc, out |-> out]
Result(kind, rc, output) == [kind |-> kind, retcode |-> rc, output |-> output]
NoResult == Result("none", 0, NoneVal)

\* stdout.strip() of what the child can write
Strip(out) == CASE out = " text " -> "text" [] out = " " -> "" [] OTHER -> out

\* lines 103-107
Output(stdout) == IF stdout = "" THEN NoneVal ELSE Some(Strip(stdout))

InitExec ==
    /\ pc = "ParseArgs"
    /\ exitStatus = 0
    /\ layouts = EmptyDict
    /\ layout = Unbound
    /\ choice = NoChoice
    /\ slotmap = EmptyDict
    /\ hddisco = EmptyDict
    /\ poolIdx = 0
    /\ name = Unbound
    /\ redundancy = Unbound
    /\ log = NoneVal
    /\ cache = NoneVal
    /\ vdev = <<>>
    /\ trace = <<>>
    /\ errors = {}
    /\ epc = "start"
    /\ etimeout \in {0, HddiscoTimeout, SlotmapTimeout}
    /\ alarm = "off"
    /\ child = Child("none", 0, "")
    /\ phandle = FALSE
    /\ eresult = NoResult
    /\ childAtFire = "none"

InCall == epc \notin {"idle", "returned", "raised"}

\* lines 80-82
SetAlarm ==
    /\ epc = "start"
    /\ alarm' = IF etimeout # 0 THEN "armed" ELSE alarm
    /\ epc' = "armed"
    /\ UNCHANGED <<etimeout, child, phandle, eresult, childAtFire>>
    /\ UNCHANGED mainVars

\* line 84
EnterTry ==
    /\ epc = "armed"
    /\ epc' = "try"
    /\ UNCHANGED <<etimeout, alarm, child, phandle, eresult, childAtFire>>
    /\ UNCHANGED mainVars

\* line 87: Popen forks the shell, or fails to
PopenFork ==
    /\ epc = "try"
    /\ \/ /\ child' = Child("running", 0, "")
          /\ epc' = "popen"
          /\ eresult' = eresult
       \/ /\ child' = child
          /\ epc' = "raised"
          /\ eresult' = Result("Execute", 0, NoneVal)
    /\ UNCHANGED <<etimeout, alarm, phandle, childAtFire>>
    /\ UNCHANGED mainVars

\* line 87: Popen returns and phandle is bound
PopenReturn ==
    /\ epc = "popen"
    /\ phandle' = TRUE
    /\ epc' = "communicate"
    /\ UNCHANGED <<etimeout, alarm, child, eresult, childAtFire>>
    /\ UNCHANGED mainVars

\* the child ends by itself, with some exit code and output
ChildExits ==
    /\ InCall
    /\ child.st = "running"
    /\ \E rc \in {0, 1}, out \in {"", " ", " text "} :
          child' = Child("exited", rc, out)
    /\ UNCHANGED <<epc, etimeout, alarm, phandle, eresult, childAtFire>>
    /\ UNCHANGED mainVars

\* lines 91-92: communicate() returns once the child has ended, or fails
Communicate ==
    /\ epc = "communicate"
    /\ \/ /\ child.st = "exited"
          /\ child' = [child EXCEPT !.st = "reaped"]
          /\ epc' = "collected"
          /\ eresult' = eresult
       \/ /\ child' = child
          /\ epc' = "raised"
          /\ eresult' = Result("Execute", 0, NoneVal)
    /\ UNCHANGED <<etimeout, alarm, phandle, childAtFire>>
    /\ UNCHANGED mainVars

\* the try block ends without an exception
LeaveTry ==
    /\ epc = "collected"
    /\ epc' = "else"
    /\ UNCHANGED <<etimeout, alarm, child, phandle, eresult, childAtFire>>
    /\ UNCHANGED mainVars

\* line 101: signal.alarm(0)
CancelAlarm ==
    /\ epc = "else"
    /\ alarm' = IF alarm = "armed" THEN "off" ELSE alarm
    /\ epc' = "strip"
    /\ UNCHANGED <<etimeout, child, phandle, eresult, childAtFire>>
    /\ UNCHANGED mainVars

\* lines 103-109
Return ==
    /\ epc = "strip"
    /\ eresult' = Result("return", child.rc, Output(child.out))
    /\ epc' = "returned"
    /\ UNCHANGED <<etimeout, alarm, child, phandle, childAtFire>>
    /\ UNCHANGED mainVars

\* lines 93-96: the except Timeout clause.  kill()
\* needs phandle bound (else UnboundLocalError) and signals the child's pid:
\* a running child is killed, an ended one is untouched, and for a pid that
\* was waited for os.kill fails, or reaches whatever process has the pid now.
ExceptTimeout(c, bound) ==
    IF ~bound THEN {[child |-> c, kind |-> "UnboundLocalError"]}
    ELSE IF c.st = "running"
    THEN {[child |-> [c EXCEPT !.st = "killed"], kind |-> "Timeout"]}
    ELSE IF c.st = "reaped"
    THEN {[child |-> c, kind |-> "OSError"], [child |-> c, kind |-> "Timeout"]}
    ELSE {[child |-> c, kind |-> "Timeout"]}

\* lines 63-64 and 93-96: SIGALRM arrives and alarm_handler raises Timeout
\* where the call is; only inside the try block does a clause catch it
AlarmFires ==
    /\ InCall
    /\ alarm = "armed"
    /\ alarm' = "fired"
    /\ childAtFire' = child.st
    /\ epc' = "raised"
    /\ IF epc \in {"try", "popen", "communicate", "collected"}
       THEN \E r \in ExceptTimeout(child, phandle) :
               /\ child' = r.child
               /\ eresult' = Result(r.kind, 0, NoneVal)
       ELSE /\ child' = child
            /\ eresult' = Result("Timeout", 0, NoneVal)
    /\ UNCHANGED <<etimeout, phandle>>
    /\ UNCHANGED mainVars

NextExec ==
    \/ SetAlarm
    \/ EnterTry
    \/ PopenFork
    \/ PopenReturn
    \/ ChildExits
    \/ Communicate
    \/ LeaveTry
    \/ CancelAlarm
    \/ Return
    \/ AlarmFires

SpecExec == InitExec /\ [][NextExec]_vars

(***************************************************************************)
(* Properties.                                                             *)
(***************************************************************************)
Events(e) == {i \in 1..Len(trace) : trace[i].e = e}
Creates == Events("cmd_create")
CmdNames == {"cmd_rescan", "cmd_slotmap", "cmd_hddisco", "cmd_create"}
Cmds(tr) == {i \in 1..Len(tr) : tr[i].e \in CmdNames}
PoolOf(i) == layouts[layout][trace[i].k]

\* the (enclosure, slot) pairs a pool specification names under each role
GroupRefs(groups) ==
    UNION {{groups[g][j] : j \in 1..Len(groups[g])} : g \in 1..Len(groups)}
LogRefs(pool) == IF "log" \in DOMAIN pool THEN GroupRefs(pool["log"]) ELSE {}
CacheRefs(pool) ==
    IF "cache" \in DOMAIN pool
    THEN {pool["cache"][j] : j \in 1..Len(pool["cache"])} ELSE {}
VdevRefs(pool) == IF "vdev" \in DOMAIN pool THEN GroupRefs(pool["vdev"]) ELSE {}

Resolves(r) == r[1] \in DOMAIN slotmap /\ r[2] \in DOMAIN slotmap[r[1]]
Dev(r) == slotmap[r[1]][r[2]]

RolesRespected(pool) ==
    /\ \A r \in LogRefs(pool) :
          Resolves(r) /\ is_log(Dev(r), hddisco) = "True"
    /\ \A r \in CacheRefs(pool) :
          Resolves(r) /\ is_cache(Dev(r), hddisco) = "True"
    /\ \A r \in VdevRefs(pool) :
          /\ Resolves(r)
          /\ is_log(Dev(r), hddisco) = "False"
          /\ is_cache(Dev(r), hddisco) = "False"

RoleViolated(pool) ==
    \/ \E r \in LogRefs(pool) :
          Resolves(r) /\ is_log(Dev(r), hddisco) = "False"
    \/ \E r \in CacheRefs(pool) :
          Resolves(r) /\ is_cache(Dev(r), hddisco) = "False"
    \/ \E r \in VdevRefs(pool) :
          /\ Resolves(r)
          /\ \/ is_log(Dev(r), hddisco) = "True"
             \/ is_cache(Dev(r), hddisco) = "True"

\* C1: a creation command is issued for a pool only if every device its
\* log groups resolve to is a log device, every device its cache list
\* resolves to is a cache device and every device its vdev groups resolve to
\* is neither; and when building the lists of a pool one of whose devices
\* violates its role, the process ends with status 1 and issues no command.
C1_RolesEnforced ==
    /\ [](\A i \in Creates : RolesRespected(PoolOf(i)))
    /\ [][(/\ pc = "BuildDeviceLists"
           /\ pc' # pc
           /\ RoleViolated(CurrentPool)
           /\ "KeyboardInterrupt" \notin errors')
          => (pc' = "Exited" /\ exitStatus' = 1 /\ trace' = trace)]_vars

\* a vdev reference resolved to a log device, after an earlier pool was made
C1_Witness ==
    /\ pc = "Exited"
    /\ exitStatus = 1
    /\ "ValidationError" \in errors
    /\ poolIdx = 2
    /\ Creates # {}
    /\ \E r \in VdevRefs(CurrentPool) :
          Resolves(r) /\ is_log(Dev(r), hddisco) = "True"

Before(a, b) == \A j \in Events(b) : \E i \in Events(a) : i < j

\* C2: the commands are issued in the order of the orchestrator's states:
\* none before the layout is selected and confirmed; rescan, then slot map,
\* then discovery; no creation before both inventories are built; pool k is
\* created after its lists are built and before the lists of any later pool
\* are built, the pools in the order of the layout.
C2_CommandOrder ==
    /\ Before("select", "confirm")
    /\ \A c \in CmdNames : Before("confirm", c)
    /\ Before("cmd_rescan", "cmd_slotmap")
    /\ Before("cmd_slotmap", "cmd_hddisco")
    /\ Before("inv_slotmap", "cmd_create")
    /\ Before("inv_hddisco", "cmd_create")
    /\ \A c \in CmdNames \ {"cmd_create"} : Cardinality(Events(c)) <= 1
    /\ \A i \in Creates :
          /\ trace[i].k = Cardinality({j \in Creates : j <= i})
          /\ trace[i].k <= Len(layouts[layout])
          /\ \E j \in Events("built") : j < i /\ trace[j].k = trace[i].k
          /\ \A j \in Events("built") : trace[j].k > trace[i].k => j > i
    /\ \A j \in Events("built") :
          \A k \in 1..(trace[j].k - 1) :
             \E i \in Creates : i < j /\ trace[i].k = k

\* a run that made two pools and ended
C2_Witness ==
    /\ pc = "Exited"
    /\ Events("complete") # {}
    /\ Cardinality(Creates) = 2
    /\ Cardinality(Events("built")) = 2

FatalKinds == {"ConfigError", "Timeout", "Execution", "NonZeroExit",
               "ParseError", "LookupError", "ValidationError", "InvalidConfig"}

AllPoolsCreated ==
    /\ layout # Unbound
    /\ \A k \in 1..Len(layouts[layout]) :
          \E i \in Creates : trace[i].k = k /\ trace[i].ok

\* C3: the exit status is 0 only when help was asked for, the operator
\* declined, or every pool of the layout was created with exit code 0; and
\* every fatal configuration, parsing, validation or execution error ends
\* the process with status 1.
C3_ExitStatus ==
    pc = "Exited" =>
        /\ exitStatus = 0 => \/ Events("help") # {}
                             \/ Events("declined") # {}
                             \/ AllPoolsCreated
        /\ errors \cap FatalKinds # {} => exitStatus = 1

Failed ==
    \/ \E i \in Cmds(trace) : ~trace[i].ok
    \/ errors \cap {"ValidationError", "LookupError"} # {}

\* C4: the run is fail-stop: once an external command or a device
\* resolution has failed no further command is issued (none for that pool or
\* a later one, no second attempt), and what was issued before stays: the
\* pools made earlier are not undone.
C4_FailStop ==
    /\ [](\A i \in Cmds(trace) : ~trace[i].ok => i = Len(trace))
    /\ [](Failed => pc = "Exited" /\ exitStatus = 1)
    /\ [][/\ Len(trace') >= Len(trace)
          /\ SubSeq(trace', 1, Len(trace)) = trace
          /\ Failed => trace' = trace]_vars

\* the second pool's creation command failed after the first pool was made
C4_Witness ==
    /\ pc = "Exited"
    /\ \E i, j \in Creates :
          /\ trace[i].k = 1 /\ trace[i].ok
          /\ trace[j].k = 2 /\ ~trace[j].ok

\* C5: when the timeout expires while the child has not completed, at
\* whatever position of the call, the child is killed, the call fails with
\* Timeout and with nothing else, and the child no longer runs.
C5_TimeoutKills ==
    (alarm = "fired" /\ childAtFire = "running") =>
        /\ epc = "raised"
        /\ eresult.kind = "Timeout"
        /\ child.st # "running"

\* the tokens of a command line, as a shell splits it
Tokens(cmd) == SelectSeq(cmd, LAMBDA t : t # "")

\* every group in order, each after the token
RECURSIVE Rendered(_, _)
Rendered(token, groups) ==
    IF groups = <<>> THEN <<>>
    ELSE <<token>> \o Head(groups) \o Rendered(token, Tail(groups))

\* C6: the creation command is the base command of the pool name, then
\* every vdev group in order, each after the pool's redundancy token; then,
\* only when a log role is given, "log" and every log group, each after
\* "mirror"; then, only when a cache role is given, "cache" and the cache
\* devices; a role that is absent leaves no section.
C6_CommandShape ==
    \A i \in Creates :
       LET ev == trace[i] IN
          Tokens(ev.cmd) =
             <<"zpool", "create", "-f", "-m", Mnt(ev.name), "-o",
               "failmode=continue", "-o", "autoreplace=on", "-O",
               "compression=lz4", ev.name>>
             \o Rendered(ev.redundancy, ev.vdev)
             \o (IF ev.log.some
                 THEN <<"log">> \o Rendered("mirror", ev.log.v) ELSE <<>>)
             \o (IF ev.cache.some THEN <<"cache">> \o ev.cache.v ELSE <<>>)

\* a raidz2 pool of two vdev groups with a log group and a cache device
C6_Witness ==
    \E i \in Creates :
       /\ trace[i].redundancy = "raidz2"
       /\ Len(trace[i].vdev) = 2
       /\ trace[i].log.some /\ trace[i].log.v # <<>>
       /\ trace[i].cache.some /\ trace[i].cache.v # <<>>
       /\ \E j \in Creates : ~trace[j].log.some /\ ~trace[j].cache.some

\* the devices of the discovery output that carry both attributes
Classified ==
    {d \in DOMAIN hddisco : {"product", "is_ssd"} \subseteq DOMAIN hddisco[d]}

DevsOf(groups) ==
    UNION {{groups[g][j] : j \in 1..Len(groups[g])} : g \in 1..Len(groups)}
LogDevs(ev) == IF ev.log.some THEN DevsOf(ev.log.v) ELSE {}
CacheDevs(ev) ==
    IF ev.cache.some THEN {ev.cache.v[j] : j \in 1..Len(ev.cache.v)} ELSE {}

\* C8: for every pool whose creation command is issued, the devices of its
\* vdev groups, of its cache list and of its log groups are pairwise
\* disjoint.
C8_RolesDisjoint ==
    \A i \in Creates :
       /\ DevsOf(trace[i].vdev) \cap CacheDevs(trace[i]) = {}
       /\ DevsOf(trace[i].vdev) \cap LogDevs(trace[i]) = {}
       /\ CacheDevs(trace[i]) \cap LogDevs(trace[i]) = {}

\* a pool with devices in all three roles was created and the run ended
C8_Witness ==
    /\ pc = "Exited"
    /\ Events("complete") # {}
    /\ \E i \in Creates :
          /\ DevsOf(trace[i].vdev) # {}
          /\ CacheDevs(trace[i]) # {}
          /\ LogDevs(trace[i]) # {}

\* C9: no creation command is issued for a pool specification that lacks
\* name or redundancy, and the run that meets one fails.
C9_NoCreateForInvalidSpec ==
    /\ \A i \in Creates : {"name", "redundancy"} \subseteq DOMAIN PoolOf(i)
    /\ (Events("complete") # {} /\ pc = "Exited") => "InvalidConfig" \notin errors

\* C10: prompt returns only on an integer i with 1 <= i <= N, and then the
\* i-th listed name.
C10_PromptRange ==
    (pc = "ConfirmLayout" /\ choice # NoChoice) =>
        /\ choice.kind = "int"
        /\ choice.val \in 1..Len(Keys(layouts))
        /\ layout = Keys(layouts)[choice.val]

====
